---- MODULE Spec2Model ----
(***************************************************************************)
(* Model of scripts/get_gurufocus_margin_of_safety.py:                     *)
(*   _extract_mos_from_text            the three-tier text heuristic       *)
(*   get_margin_of_safety_requests     the fast (requests) path            *)
(*   _get_margin_of_safety_playwright_async   the render (browser) path    *)
(*   get_margin_of_safety              the orchestrator                    *)
(* Texts are sequences of one-character strings.  A float is the pair      *)
(* <<n, k>> standing for n / 10^k, normalised.                             *)
(***************************************************************************)
EXTENDS Integers, Sequences, FiniteSets, TLC

\* ------------------------------------------------------------------ bounds
\* Longest text, counted in segments, that the extraction inputs are built of.
MaxSegs == 4
\* Longest text, counted in atoms, of the character-level extraction inputs.
MaxAtoms == 4

\* ----------------------------------------------------------- text helpers
\* Python's None; a match and a float are never the empty sequence.
None == << >>

Digit == {"0", "1", "2", "3", "4", "5", "6", "7", "8", "9"}

\* Python's \s, restricted to the whitespace the modelled texts hold.
Space == {" ", "\n"}

DigitVal(c) ==
    CASE c = "0" -> 0 [] c = "1" -> 1 [] c = "2" -> 2 [] c = "3" -> 3
      [] c = "4" -> 4 [] c = "5" -> 5 [] c = "6" -> 6 [] c = "7" -> 7
      [] c = "8" -> 8 [] c = "9" -> 9

MinOf(S) == CHOOSE x \in S : \A y \in S : x <= y

\* text[a:b] of Python (0-based, half open, clamped to the text's length).
Slice(s, a, b) ==
    LET lo == IF a < 0 THEN 0 ELSE a
        hi == IF b > Len(s) THEN Len(s) ELSE b
    IN  IF lo >= hi THEN << >> ELSE SubSeq(s, lo + 1, hi)

\* str.lower() of one character.  U+0130 (capital I with dot above) lower-cases
\* to the two characters "i" and U+0307, so lower() can lengthen a text.
LowerChar(c) ==
    CASE c = "M" -> <<"m">>
      [] c = "S" -> <<"s">>
      [] c = "X" -> <<"x">>
      [] c = "U0130" -> <<"i", "U0307">>
      [] OTHER -> <<c>>

\* The characters of the modelled texts that lower() changes, and those among
\* them whose lower-case form is not one character.
Cased == {"M", "S", "X", "U0130"}
LongCased == {c \in Cased : Len(LowerChar(c)) # 1}

\* str.lower()
RECURSIVE Lower(_)
Lower(s) ==
    LET long == {i \in 1..Len(s) : s[i] \in LongCased}
    IN  IF long = {}
        THEN [i \in 1..Len(s) |-> IF s[i] \in Cased THEN LowerChar(s[i])[1] ELSE s[i]]
        ELSE LET i == MinOf(long)
             IN  Lower(SubSeq(s, 1, i - 1)) \o LowerChar(s[i])
                   \o Lower(SubSeq(s, i + 1, Len(s)))

\* The literal searched for at line 48.
Keyword ==
    <<"m", "a", "r", "g", "i", "n", " ", "o", "f", " ",
      "s", "a", "f", "e", "t", "y">>

\* str.find: 0-based index of the first occurrence of sub in s, or -1.
Find(s, sub) ==
    LET at == {i \in 1..(Len(s) - Len(sub) + 1) :
                 /\ s[i] = sub[1]
                 /\ SubSeq(s, i, i + Len(sub) - 1) = sub}
    IN  IF at = {} THEN -1 ELSE MinOf(at) - 1

\* Greedy run: the last index j >= i - 1 with s[i..j] all in class.
RECURSIVE RunEnd(_, _, _)
RunEnd(s, i, class) ==
    IF i > Len(s) \/ s[i] \notin class THEN i - 1 ELSE RunEnd(s, i + 1, class)

\* float() of the text matched by [+-]?\d+(?:\.\d+)? : <<n, k>> for n / 10^k.
RECURSIVE DigitsToInt(_, _)
DigitsToInt(ds, acc) ==
    IF ds = << >> THEN acc ELSE DigitsToInt(Tail(ds), acc * 10 + DigitVal(Head(ds)))

RECURSIVE Normalise(_, _)
Normalise(n, k) ==
    IF k > 0 /\ n % 10 = 0 THEN Normalise(n \div 10, k - 1) ELSE <<n, k>>

Float(num) ==
    LET neg    == num[1] = "-"
        body   == IF num[1] \in {"+", "-"} THEN Tail(num) ELSE num
        dot    == Find(body, <<".">>)
        ip     == IF dot = -1 THEN body ELSE Slice(body, 0, dot)
        fp     == IF dot = -1 THEN << >> ELSE Slice(body, dot + 1, Len(body))
        mag    == DigitsToInt(ip \o fp, 0)
    IN  Normalise(IF neg THEN 0 - mag ELSE mag, Len(fp))

\* One attempt of  ([+-]?\d+(?:\.\d+)?)\s*%  at 1-based position i of s:
\* [ok, g1, g2] with s[g1..g2] group 1, or ok = FALSE.
\* Backtracking never finds a match the greedy attempt misses: a shorter digit
\* run is followed by a digit, which neither \. nor \s nor % matches.
NumberAt(s, i) ==
    LET d0   == IF i <= Len(s) /\ s[i] \in {"+", "-"} THEN i + 1 ELSE i
        dEnd == RunEnd(s, d0, Digit)
        fEnd == IF dEnd + 1 <= Len(s) /\ s[dEnd + 1] = "."
                THEN RunEnd(s, dEnd + 2, Digit) ELSE dEnd
        hasF == fEnd >= dEnd + 2
        pctAfter(e) == LET w == RunEnd(s, e + 1, Space)
                       IN  w + 1 <= Len(s) /\ s[w + 1] = "%"
    IN  IF dEnd < d0 THEN [ok |-> FALSE]
        ELSE IF hasF /\ pctAfter(fEnd) THEN [ok |-> TRUE, g1 |-> i, g2 |-> fEnd]
        ELSE IF pctAfter(dEnd) THEN [ok |-> TRUE, g1 |-> i, g2 |-> dEnd]
        ELSE [ok |-> FALSE]

\* The characters a match of MOS_RE can start with.
NumStart == Digit \cup {"+", "-"}

\* MOS_RE.search(s): group 1 of the leftmost match, or None.
MOS_RE_search(s) ==
    LET at == {i \in 1..Len(s) : s[i] \in NumStart /\ NumberAt(s, i).ok}
    IN  IF at = {} THEN None
        ELSE LET m == NumberAt(s, MinOf(at)) IN SubSeq(s, m.g1, m.g2)

\* re.search(r"=\s*([+-]?\d+(?:\.\d+)?)\s*%", s): group 1 of the leftmost match.
EqSearch(s) ==
    LET numAfter(i) == NumberAt(s, RunEnd(s, i + 1, Space) + 1)
        at == {i \in 1..Len(s) : s[i] = "=" /\ numAfter(i).ok}
    IN  IF at = {} THEN None
        ELSE LET m == numAfter(MinOf(at)) IN SubSeq(s, m.g1, m.g2)

WINDOW == 700

\* Mutant of AnchoredTier: the percentage is searched from the start of the
\* text instead of from the keyword.
AnchoredTierWholeText(text) ==
    LET idx == Find(Lower(text), Keyword)
    IN  IF idx = -1 THEN None
        ELSE LET m == MOS_RE_search(Slice(text, 0, idx + WINDOW))
             IN  IF m = None THEN None ELSE Float(m)

\* Lines 47-53: the anchored tier.  The index found in the lower-cased text
\* is applied to the original text.
AnchoredTier(text) ==
    LET idx == Find(Lower(text), Keyword)
    IN  IF idx = -1 THEN None
        ELSE LET m == MOS_RE_search(Slice(text, idx, idx + WINDOW))
             IN  IF m = None THEN None ELSE Float(m)

\* Lines 56-58: the calculation-line tier.
CalcTier(text) ==
    LET m2 == EqSearch(text) IN IF m2 = None THEN None ELSE Float(m2)

\* Mutant of LastTier: 0.0 instead of None when nothing matches.
LastTierZero(text) ==
    LET m3 == MOS_RE_search(text) IN IF m3 = None THEN Float(<<"0">>) ELSE Float(m3)

\* Lines 61-63: the last-resort tier.
LastTier(text) ==
    LET m3 == MOS_RE_search(text) IN IF m3 = None THEN None ELSE Float(m3)

\* Mutant of extract_mos_from_text: the last-resort tier runs before the
\* calculation tier.
extract_mos_last_before_calc(text) ==
    LET tier1 == AnchoredTier(text)
        tier3 == LastTier(text)
    IN  IF text = << >> THEN None
        ELSE IF tier1 # None THEN tier1
        ELSE IF tier3 # None THEN tier3
        ELSE CalcTier(text)

\* _extract_mos_from_text
extract_mos_from_text(text) ==
    LET tier1 == AnchoredTier(text)
        tier2 == CalcTier(text)
    IN  IF text = << >> THEN None
        ELSE IF tier1 # None THEN tier1
        ELSE IF tier2 # None THEN tier2
        ELSE LastTier(text)

\* ------------------------------------------------------------------ state
VARIABLES
    segs,             \* extraction input, as the segments the text is built of
    epc,              \* "call" before _extract_mos_from_text runs, "ret" after
    eret,             \* its return value
    pc,               \* get_margin_of_safety: START, TRY_FAST, TRY_RENDER, DONE, RAISED
    ticker,           \* argument
    prefer_requests,  \* argument
    headless,         \* argument
    result,           \* value get_margin_of_safety returned
    error,            \* exception get_margin_of_safety let through, or "none"
    fpc,              \* get_margin_of_safety_requests: idle, get, status, parse, ret, exc
    url,              \* the fast path's url
    r,                \* the response of requests.get
    fmos,             \* value the fast path returned
    ferr,             \* exception the fast path raised, or "none"
    nGet,             \* calls of requests.get
    nExtract,         \* calls of _extract_mos_from_text made by the fast path
    nFast,            \* calls of get_margin_of_safety_requests
    rpc,              \* _get_margin_of_safety_playwright_async: position
    playwright,       \* async_playwright(): none, started, stopped
    browser,          \* none, open, closed
    ctx,              \* none, open, closed
    page,             \* none, open, loaded
    text,             \* rendered text read by page.evaluate
    rret,             \* (mos, status) the render path returned
    rerr,             \* exception the render path raised, or "none"
    nCtxClose,        \* completed calls of ctx.close()
    nBrowserClose,    \* completed calls of browser.close()
    nRender           \* calls of _get_margin_of_safety_playwright_async

evars == <<segs, epc, eret>>
ovars == <<pc, ticker, prefer_requests, headless, result, error>>
fvars == <<fpc, url, r, fmos, ferr, nGet, nExtract, nFast>>
rvars == <<rpc, playwright, browser, ctx, page, text, rret, rerr,
           nCtxClose, nBrowserClose, nRender>>
vars  == <<evars, ovars, fvars, rvars>>

\* ------------------------------------------------- extraction inputs
KeywordMixed ==
    <<"M", "a", "r", "g", "i", "n", " ", "o", "f", " ",
      "S", "a", "f", "e", "t", "y">>

\* A filler that, after the keyword, leaves two characters of the window.
FillLen == WINDOW - Len(Keyword) - 2

Segment(name) ==
    CASE name = "Kw"   -> KeywordMixed
      [] name = "kwfill" -> Keyword \o [i \in 1..(WINDOW - Len(Keyword)) |-> "x"]
      [] name = "neg"  -> <<"-", "1", ".", "5", "0", "%">>
      [] name = "pos"  -> <<"7", " ", "%">>
      [] name = "eq"   -> <<"=", " ">>
      [] name = "x"    -> <<"x">>
      [] name = "fill" -> [i \in 1..FillLen |-> "x"]
      [] name = "Idot" -> <<"U0130">>
      [] name = "<b>"  -> <<"<", "b", ">">>
      [] name = "</b>" -> <<"<", "/", "b", ">">>
      [] OTHER -> <<name>>

\* "kwfill" is the keyword with nothing but filler in its window.
SegmentNames == {"Kw", "kwfill", "neg", "pos", "eq", "x", "fill", "Idot"}

RECURSIVE Expand(_)
Expand(ss) == IF ss = << >> THEN << >> ELSE Segment(Head(ss)) \o Expand(Tail(ss))

\* Single characters (and the keyword), for texts that come close to a token.
AtomNames == {"Kw", "7", "-", ".", "%", " ", "=", "x"}

SegSeqs ==
    UNION ({[1..n -> SegmentNames] : n \in 0..MaxSegs}
             \cup {[1..n -> AtomNames] : n \in 0..MaxAtoms})

\* ------------------------------------------------------- fetch inputs
Tickers == {<<" ", "m", "s", "\n">>, <<"X">>}

\* Status codes requests.get may hand back (redirects it could not follow
\* included) and the exceptions it may raise.
Statuses == {200, 204, 304, 403, 404, 500}
GetErrors == {"ConnectionError", "Timeout"}

\* Response bodies (HTML) and rendered page texts.
Bodies ==
    { << >>,
      Expand(<<"<b>", "Kw", "</b>", "<b>", "eq", "pos", "</b>">>),
      Expand(<<"<b>", "neg", "</b>">>),
      Expand(<<"<b>", "x", "</b>", "x">>) }

PageTexts ==
    { << >>,
      Expand(<<"Kw", "x", "neg">>),
      Expand(<<"eq", "pos">>),
      Expand(<<"x", "x">>) }

RenderErrors == {"Error", "TimeoutError"}

\* ---------------------------------------------------- fast-path helpers
UpperChar(c) ==
    CASE c = "m" -> "M" [] c = "s" -> "S" [] c = "x" -> "X" [] OTHER -> c

Upper(s) == [i \in 1..Len(s) |-> UpperChar(s[i])]

\* str.strip(): leading and trailing whitespace removed.
Strip(s) ==
    LET keep == {i \in 1..Len(s) : s[i] \notin Space}
    IN  IF keep = {} THEN << >>
        ELSE SubSeq(s, MinOf(keep), CHOOSE i \in keep : \A j \in keep : j <= i)

\* Lines 73-74 and 103-104.
Url(t) == <<"https://www.gurufocus.com/stock/">> \o Strip(Upper(t)) \o <<"/dcf">>

\* Response.raise_for_status(): raises HTTPError for 4xx and 5xx only.
RaisesForStatus(status) == 400 <= status /\ status < 600

\* BeautifulSoup(html, "html.parser").get_text(separator="\n"): the text nodes
\* between the tags, joined by the separator.
RECURSIVE TextNodes(_, _, _)
TextNodes(html, inTag, cur) ==
    IF html = << >> THEN (IF cur = << >> THEN << >> ELSE <<cur>>)
    ELSE LET c == Head(html) IN
         IF inTag THEN TextNodes(Tail(html), c # ">", << >>)
         ELSE IF c = "<"
              THEN (IF cur = << >> THEN << >> ELSE <<cur>>)
                     \o TextNodes(Tail(html), TRUE, << >>)
              ELSE TextNodes(Tail(html), FALSE, Append(cur, c))

RECURSIVE Join(_, _)
Join(nodes, sep) ==
    IF nodes = << >> THEN << >>
    ELSE IF Len(nodes) = 1 THEN nodes[1]
    ELSE nodes[1] \o sep \o Join(Tail(nodes), sep)

GetText(html) == Join(TextNodes(html, FALSE, << >>), <<"\n">>)

\* ------------------------------------------------------------------ Init
ExtractIdle ==
    /\ segs = << >>
    /\ epc = "idle"
    /\ eret = None

FetchIdle ==
    /\ fpc = "idle" /\ url = << >> /\ r = [status |-> 0, text |-> << >>]
    /\ fmos = None /\ ferr = "none" /\ nGet = 0 /\ nExtract = 0 /\ nFast = 0
    /\ rpc = "idle" /\ playwright = "none" /\ browser = "none" /\ ctx = "none"
    /\ page = "none" /\ text = << >> /\ rret = <<None, "none">> /\ rerr = "none"
    /\ nCtxClose = 0 /\ nBrowserClose = 0 /\ nRender = 0
    /\ result = None /\ error = "none"

Init ==
    /\ ExtractIdle
    /\ FetchIdle
    /\ pc = "START"
    /\ ticker \in Tickers
    /\ prefer_requests \in BOOLEAN
    /\ headless \in BOOLEAN

ExtractInit ==
    /\ segs \in SegSeqs
    /\ epc = "call"
    /\ eret = None
    /\ FetchIdle
    /\ pc = "idle"
    /\ ticker = << >>
    /\ prefer_requests = TRUE
    /\ headless = TRUE

\* ------------------------------------------------- _extract_mos_from_text
\* One call of _extract_mos_from_text on the text the state holds.
ExtractCall ==
    /\ epc = "call"
    /\ eret' = extract_mos_from_text(Expand(segs))
    /\ epc' = "ret"
    /\ UNCHANGED <<segs, ovars, fvars, rvars>>

\* ------------------------------------------ get_margin_of_safety_requests
\* Entry of the fast path (line 135).
StartFast ==
    /\ fpc' = "get"
    /\ nFast' = nFast + 1
    /\ url' = Url(ticker)
    /\ UNCHANGED <<r, fmos, ferr, nGet, nExtract>>

\* Entry of the render path (line 142).
StartRender ==
    /\ rpc' = "start"
    /\ nRender' = nRender + 1
    /\ UNCHANGED <<playwright, browser, ctx, page, text, rret, rerr,
                   nCtxClose, nBrowserClose>>

\* Line 83: requests.get returns a response or raises.
FastGet ==
    /\ fpc = "get"
    /\ nGet' = nGet + 1
    /\ \/ /\ \E st \in Statuses, body \in Bodies : r' = [status |-> st, text |-> body]
          /\ fpc' = "status"
          /\ ferr' = ferr
       \/ /\ \E e \in GetErrors : ferr' = e
          /\ fpc' = "exc"
          /\ r' = r
    /\ UNCHANGED <<url, fmos, nExtract, nFast, evars, ovars, rvars>>

\* Mutant of FastStatus: 403 is not singled out and raises like any 4xx.
FastStatusNo403 ==
    /\ fpc = "status"
    /\ IF RaisesForStatus(r.status)
       THEN ferr' = "HTTPError" /\ fpc' = "exc" /\ fmos' = fmos
       ELSE fpc' = "parse" /\ UNCHANGED <<fmos, ferr>>
    /\ UNCHANGED <<url, r, nGet, nExtract, nFast, evars, ovars, rvars>>

\* Lines 84-86: 403 returns None, raise_for_status raises or passes.
FastStatus ==
    /\ fpc = "status"
    /\ IF r.status = 403
       THEN fmos' = None /\ fpc' = "ret" /\ ferr' = ferr
       ELSE IF RaisesForStatus(r.status)
       THEN ferr' = "HTTPError" /\ fpc' = "exc" /\ fmos' = fmos
       ELSE fpc' = "parse" /\ UNCHANGED <<fmos, ferr>>
    /\ UNCHANGED <<url, r, nGet, nExtract, nFast, evars, ovars, rvars>>

\* Lines 88-90: html to text, then the extraction; the parser may raise.
FastParse ==
    /\ fpc = "parse"
    /\ \/ /\ fmos' = extract_mos_from_text(GetText(r.text))
          /\ nExtract' = nExtract + 1
          /\ fpc' = "ret"
          /\ ferr' = ferr
       \/ /\ ferr' = "Exception"
          /\ fpc' = "exc"
          /\ UNCHANGED <<fmos, nExtract>>
    /\ UNCHANGED <<url, r, nGet, nFast, evars, ovars, rvars>>

\* ---------------------------------- _get_margin_of_safety_playwright_async
\* A step of the render path raises e: the exception leaves the async with
\* block (line 106), whose exit stops playwright when it had started.
RenderRaise(e) ==
    /\ rerr' = e
    /\ rpc' = "exc"
    /\ playwright' = IF playwright = "started" THEN "stopped" ELSE playwright

\* Lines 101 and 106: the import and the entry of async_playwright().
RenderStart ==
    /\ rpc = "start"
    /\ \/ /\ playwright' = "started" /\ rpc' = "launch" /\ rerr' = rerr
       \/ /\ rerr' = "ImportError" /\ rpc' = "exc" /\ playwright' = playwright
    /\ UNCHANGED <<browser, ctx, page, text, rret, nCtxClose, nBrowserClose,
                   nRender, evars, ovars, fvars>>

\* Line 107.
RenderLaunch ==
    /\ rpc = "launch"
    /\ \/ /\ browser' = "open" /\ rpc' = "new_context"
          /\ UNCHANGED <<rerr, playwright>>
       \/ /\ RenderRaise("Error") /\ browser' = browser
    /\ UNCHANGED <<ctx, page, text, rret, nCtxClose, nBrowserClose,
                   nRender, evars, ovars, fvars>>

\* Line 108.
RenderNewContext ==
    /\ rpc = "new_context"
    /\ \/ /\ ctx' = "open" /\ rpc' = "new_page"
          /\ UNCHANGED <<rerr, playwright>>
       \/ /\ RenderRaise("Error") /\ ctx' = ctx
    /\ UNCHANGED <<browser, page, text, rret, nCtxClose, nBrowserClose,
                   nRender, evars, ovars, fvars>>

\* Line 109.
RenderNewPage ==
    /\ rpc = "new_page"
    /\ \/ /\ page' = "open" /\ rpc' = "goto"
          /\ UNCHANGED <<rerr, playwright>>
       \/ /\ RenderRaise("Error") /\ page' = page
    /\ UNCHANGED <<browser, ctx, text, rret, nCtxClose, nBrowserClose,
                   nRender, evars, ovars, fvars>>

\* Line 111: the navigation succeeds, times out or fails.
RenderGoto ==
    /\ rpc = "goto"
    /\ \/ /\ page' = "loaded" /\ rpc' = "wait"
          /\ UNCHANGED <<rerr, playwright>>
       \/ /\ \E e \in RenderErrors : RenderRaise(e)
          /\ page' = page
    /\ UNCHANGED <<browser, ctx, text, rret, nCtxClose, nBrowserClose,
                   nRender, evars, ovars, fvars>>

\* Line 113.
RenderWait ==
    /\ rpc = "wait"
    /\ \/ /\ rpc' = "evaluate"
          /\ UNCHANGED <<rerr, playwright>>
       \/ RenderRaise("Error")
    /\ UNCHANGED <<browser, ctx, page, text, rret, nCtxClose, nBrowserClose,
                   nRender, evars, ovars, fvars>>

\* Line 115.
RenderEvaluate ==
    /\ rpc = "evaluate"
    /\ \/ /\ \E t \in PageTexts : text' = t
          /\ rpc' = "ctx_close"
          /\ UNCHANGED <<rerr, playwright>>
       \/ /\ RenderRaise("Error") /\ text' = text
    /\ UNCHANGED <<browser, ctx, page, rret, nCtxClose, nBrowserClose,
                   nRender, evars, ovars, fvars>>

\* Line 117.
RenderCtxClose ==
    /\ rpc = "ctx_close"
    /\ \/ /\ ctx' = "closed" /\ nCtxClose' = nCtxClose + 1
          /\ rpc' = "browser_close"
          /\ UNCHANGED <<rerr, playwright>>
       \/ /\ RenderRaise("Error") /\ UNCHANGED <<ctx, nCtxClose>>
    /\ UNCHANGED <<browser, page, text, rret, nBrowserClose,
                   nRender, evars, ovars, fvars>>

\* Line 118, then the normal exit of the async with block.
RenderBrowserClose ==
    /\ rpc = "browser_close"
    /\ \/ /\ browser' = "closed" /\ nBrowserClose' = nBrowserClose + 1
          /\ playwright' = "stopped"
          /\ rpc' = "extract"
          /\ rerr' = rerr
       \/ /\ RenderRaise("Error") /\ UNCHANGED <<browser, nBrowserClose>>
    /\ UNCHANGED <<ctx, page, text, rret, nCtxClose,
                   nRender, evars, ovars, fvars>>

\* Lines 120-121.
RenderExtract ==
    /\ rpc = "extract"
    /\ LET mos == extract_mos_from_text(text)
       IN  rret' = <<mos, IF mos # None THEN "ok" ELSE "mos_not_found">>
    /\ rpc' = "ret"
    /\ UNCHANGED <<playwright, browser, ctx, page, text, rerr, nCtxClose,
                   nBrowserClose, nRender, evars, ovars, fvars>>

\* --------------------------------------------------- get_margin_of_safety
\* Mutant of Call: both paths are started at once.
CallBothPaths ==
    /\ pc = "START"
    /\ pc' = "TRY_FAST" /\ StartFast /\ StartRender
    /\ UNCHANGED <<ticker, prefer_requests, headless, result, error, evars>>

\* Mutant of Call: prefer_requests is ignored.
CallAlwaysFast ==
    /\ pc = "START"
    /\ pc' = "TRY_FAST" /\ StartFast /\ UNCHANGED rvars
    /\ UNCHANGED <<ticker, prefer_requests, headless, result, error, evars>>

\* Line 133: the call enters the fast path or goes straight to the render path.
Call ==
    /\ pc = "START"
    /\ IF prefer_requests
       THEN pc' = "TRY_FAST" /\ StartFast /\ UNCHANGED rvars
       ELSE pc' = "TRY_RENDER" /\ StartRender /\ UNCHANGED fvars
    /\ UNCHANGED <<ticker, prefer_requests, headless, result, error, evars>>

\* Mutant of FastReturned: the render path runs whatever the fast path returned.
FastReturnedIgnoresValue ==
    /\ pc = "TRY_FAST"
    /\ fpc = "ret"
    /\ pc' = "TRY_RENDER" /\ StartRender /\ result' = result
    /\ UNCHANGED <<ticker, prefer_requests, headless, error, evars, fvars>>

\* Lines 135-137: the fast path returned.
FastReturned ==
    /\ pc = "TRY_FAST"
    /\ fpc = "ret"
    /\ IF fmos # None
       THEN pc' = "DONE" /\ result' = fmos /\ UNCHANGED rvars
       ELSE pc' = "TRY_RENDER" /\ StartRender /\ result' = result
    /\ UNCHANGED <<ticker, prefer_requests, headless, error, evars, fvars>>

\* Mutant of FastRaised: the fast path's exception is let through.
FastRaisedPropagates ==
    /\ pc = "TRY_FAST"
    /\ fpc = "exc"
    /\ pc' = "RAISED"
    /\ error' = ferr
    /\ UNCHANGED <<ticker, prefer_requests, headless, result, evars, fvars, rvars>>

\* Lines 138-140: except Exception: pass.
FastRaised ==
    /\ pc = "TRY_FAST"
    /\ fpc = "exc"
    /\ pc' = "TRY_RENDER"
    /\ StartRender
    /\ UNCHANGED <<ticker, prefer_requests, headless, result, error, evars, fvars>>

\* Lines 142-143: asyncio.run hands back the render path's pair.
RenderReturned ==
    /\ pc = "TRY_RENDER"
    /\ rpc = "ret"
    /\ result' = rret[1]
    /\ pc' = "DONE"
    /\ UNCHANGED <<ticker, prefer_requests, headless, error, evars, fvars, rvars>>

\* Line 142: nothing catches what the render path raises.
RenderRaised ==
    /\ pc = "TRY_RENDER"
    /\ rpc = "exc"
    /\ error' = rerr
    /\ pc' = "RAISED"
    /\ UNCHANGED <<ticker, prefer_requests, headless, result, evars, fvars, rvars>>

\* ------------------------------------------------------------------ Next
Next ==
    \/ Call
    \/ FastGet
    \/ FastStatus
    \/ FastParse
    \/ FastReturned
    \/ FastRaised
    \/ RenderStart
    \/ RenderLaunch
    \/ RenderNewContext
    \/ RenderNewPage
    \/ RenderGoto
    \/ RenderWait
    \/ RenderEvaluate
    \/ RenderCtxClose
    \/ RenderBrowserClose
    \/ RenderExtract
    \/ RenderReturned
    \/ RenderRaised

Spec == Init /\ [][Next]_vars

ExtractNext == ExtractCall

SpecExtract == ExtractInit /\ [][ExtractNext]_vars

\* ================================================================ claims
\* The grammar of a signed-percentage token, stated without the matcher:
\* s[p..e] is [+-]?digits(.digits)? and only whitespace separates it from a %.
Sign == {"+", "-"}

IsNum(s, p, e) ==
    LET b    == IF s[p] \in Sign THEN p + 1 ELSE p
        dots == {i \in b..e : s[i] = "."}
    IN  /\ b <= e
        /\ \A i \in b..e : s[i] \in Digit \cup {"."}
        /\ Cardinality(dots) <= 1
        /\ s[b] \in Digit
        /\ s[e] \in Digit

PctFollows(s, e, j) ==
    /\ j > e
    /\ s[j] = "%"
    /\ \A i \in (e + 1)..(j - 1) : s[i] \in Space

\* The characters a token or an "=" line is made of, other than whitespace.
Marked == Digit \cup Sign \cup {"%", "=", "."}

\* The places of s that hold such a character.
Marks(s) == {i \in 1..Len(s) : s[i] \in Marked}

\* Every token of s as <<p, e, j>>: the number is s[p..e], its % is s[j].
\* mk is Marks(s).
Tokens(s, mk) ==
    LET pcts   == {j \in mk : s[j] = "%"}
        ends   == {i \in mk : s[i] \in Digit}
        closed == {c \in ends \X pcts : PctFollows(s, c[1], c[2])}
        starts == {i \in mk : s[i] \in Digit \cup Sign}
    IN  {t \in starts \X ends \X pcts :
            /\ t[1] <= t[2]
            /\ <<t[2], t[3]>> \in closed
            /\ IsNum(s, t[1], t[2])}

\* Every "= number %" token of s as <<q, <<p, e, j>>>>, the = at s[q].
\* toks is the set of the tokens of s.
EqTokens(s, mk, toks) ==
    LET eqs == {q \in mk : s[q] = "="}
    IN  {u \in eqs \X toks :
            /\ u[1] < u[2][1]
            /\ \A i \in (u[1] + 1)..(u[2][1] - 1) : s[i] \in Space}

\* The tokens that lie wholly in the WINDOW characters from 0-based index at.
TokensIn(toks, at) == {t \in toks : t[1] >= at + 1 /\ t[3] <= at + WINDOW}

Leftmost(W) == CHOOSE t \in W : \A u \in W : t[1] <= u[1]

TokenValue(s, t) == Float(SubSeq(s, t[1], t[2]))

\* The text the extraction was called on.
Txt == Expand(segs)

\* 1-based places where the phrase stands in the text itself, in any case.
Occurrences(s) ==
    {k \in 1..(Len(s) - Len(Keyword) + 1) :
        Lower(SubSeq(s, k, k + Len(Keyword) - 1)) = Keyword}

\* The value the anchored reading gives for the occurrence at k, or None.
AnchoredValue(s, toks, k) ==
    LET W == TokensIn(toks, k - 1)
    IN  IF W = {} THEN None ELSE TokenValue(s, Leftmost(W))

\* C4, as stated: when the phrase is followed within 700 characters by a
\* percentage P, the result is P, whatever other percentages the text holds.
\* P is the first token in the window of an occurrence; texts where two
\* occurrences give different P are left out, so P is never ambiguous.
C4_AnyOccurrence ==
    epc = "ret" =>
        LET t    == Txt
            toks == Tokens(t, Marks(t))
            ps   == {AnchoredValue(t, toks, k) : k \in Occurrences(t)} \ {None}
        IN  \A P \in ps : ps = {P} => eret = P

\* C4, amended: with idx the index of the FIRST occurrence of the phrase in the
\* lower-cased text, if the 700 characters of the text from idx hold a complete
\* percentage token, the result is the first such token's value.
C4_FirstOccurrence ==
    epc = "ret" =>
        LET t   == Txt
            idx == Find(Lower(t), Keyword)
            W   == IF idx = -1 THEN {} ELSE TokensIn(Tokens(t, Marks(t)), idx)
        IN  W # {} => eret = TokenValue(t, Leftmost(W))

\* C4 witness: the anchored value is returned although a different percentage
\* stands before the keyword and an "= number %" token stands in the text.
C4_Witness ==
    /\ epc = "ret"
    /\ LET t    == Txt
           idx  == Find(Lower(t), Keyword)
           mk   == Marks(t)
           toks == Tokens(t, mk)
           W    == IF idx = -1 THEN {} ELSE TokensIn(toks, idx)
       IN  /\ W # {}
           /\ eret = TokenValue(t, Leftmost(W))
           /\ LET before == {u \in toks : u[3] <= idx}
              IN  before # {} /\ TokenValue(t, Leftmost(before)) # eret
           /\ EqTokens(t, mk, toks) # {}

\* The "= number %" token that stands first in the text.
FirstEq(E) == CHOOSE u \in E : \A v \in E : u[1] <= v[1]

\* C6: when the anchored tier finds nothing, the result is the first
\* "= number %" token of the whole text if there is one, and only otherwise the
\* first percentage token of the whole text (None when there is none).
C6_TierOrder ==
    epc = "ret" =>
        LET t    == Txt
            idx  == Find(Lower(t), Keyword)
            mk   == Marks(t)
            toks == Tokens(t, mk)
            E    == EqTokens(t, mk, toks)
        IN  (idx = -1 \/ TokensIn(toks, idx) = {}) =>
                eret = IF E # {} THEN TokenValue(t, FirstEq(E)[2])
                       ELSE IF toks # {} THEN TokenValue(t, Leftmost(toks))
                       ELSE None

\* C6 witness: the keyword is there without a token in its window, and the "="
\* token wins over a plain percentage that stands earlier in the text and has
\* another value.
C6_Witness ==
    /\ epc = "ret"
    /\ LET t    == Txt
           idx  == Find(Lower(t), Keyword)
           mk   == Marks(t)
           toks == Tokens(t, mk)
           E    == EqTokens(t, mk, toks)
       IN  /\ idx # -1
           /\ TokensIn(toks, idx) = {}
           /\ E # {}
           /\ eret = TokenValue(t, FirstEq(E)[2])
           /\ Leftmost(toks)[1] < FirstEq(E)[1]
           /\ TokenValue(t, Leftmost(toks)) # eret

\* C7: a text without any percentage token, empty or not, with or without the
\* keyword, gives None; so a value is returned only when a token exists.
C7_NoTokenNoValue ==
    epc = "ret" =>
        LET t == Txt IN Tokens(t, Marks(t)) = {} => eret = None

\* C7 witness: a text that holds the keyword, digits and a % but no token.
C7_Witness ==
    /\ epc = "ret"
    /\ eret = None
    /\ LET t == Txt
       IN  /\ Find(Lower(t), Keyword) # -1
           /\ Tokens(t, Marks(t)) = {}
           /\ \E i \in 1..Len(t) : t[i] = "%"
           /\ \E i \in 1..Len(t) : t[i] \in Digit

\* ------------------------------------------------- fetch-path claims
FastErrors == GetErrors \cup {"HTTPError", "Exception"}

\* The fast path ended without a value: it raised, or returned None.
FastFailed == fpc = "exc" \/ (fpc = "ret" /\ fmos = None)

\* C1: with prefer_requests, once the fast path has returned a value the render
\* path is never entered in that call and the value returned is the fast path's.
C1_FastValueSkipsRender ==
    prefer_requests /\ fpc = "ret" /\ fmos # None =>
        /\ nRender = 0
        /\ rpc = "idle"
        /\ playwright = "none"
        /\ pc \in {"TRY_FAST", "DONE"}
        /\ pc = "DONE" => result = fmos

\* C1 witness: a call that ended with the fast path's value.
C1_Witness ==
    /\ prefer_requests
    /\ pc = "DONE"
    /\ fpc = "ret"
    /\ fmos # None
    /\ result = fmos
    /\ nRender = 0

\* C2: with prefer_requests, whatever way the fast path fails (it raised, or
\* it returned None), the next step of the call enters the render path, and no
\* exception of the fast path is ever the exception the call lets through.
C2_FastFailureSwallowed ==
    [][ /\ (pc = "TRY_FAST" /\ FastFailed =>
                pc' = "TRY_RENDER" /\ rpc' = "start" /\ nRender' = nRender + 1
                  /\ error' = "none")
        /\ error' \notin FastErrors ]_vars

\* C2 witness: the fast path raised an HTTP error and the call went on to
\* finish through the render path.
C2_Witness ==
    /\ prefer_requests
    /\ ferr = "HTTPError"
    /\ fpc = "exc"
    /\ nRender = 1
    /\ pc = "DONE"
    /\ error = "none"

\* C3, as stated: whenever the render path ends after the browser was launched
\* and the context opened, the context and the browser were each closed once.
C3_ClosedOnEveryExit ==
    rpc \in {"ret", "exc"} /\ ctx # "none" =>
        /\ nCtxClose = 1
        /\ nBrowserClose = 1
        /\ ctx = "closed"
        /\ browser = "closed"

\* C5, as stated, in the case it names: when both paths fail (the fast path
\* raised or returned None, the render path failed at launch or navigation or
\* later) the call still ends without an error, with None as its result.
C5_NoTerminalError ==
    prefer_requests /\ FastFailed /\ rerr \in RenderErrors =>
        /\ pc # "RAISED"
        /\ error = "none"
        /\ pc = "DONE" => result = None

\* C8: each path is entered at most once, requests.get is called at most once,
\* and the render path is not running until the fast path has returned or raised.
C8_SequentialNoRetry ==
    /\ nFast <= 1
    /\ nRender <= 1
    /\ nGet <= 1
    /\ rpc # "idle" => fpc \in {"idle", "ret", "exc"}
    /\ rpc # "idle" /\ prefer_requests => fpc \in {"ret", "exc"}

\* C8 witness: both paths ran, one after the other, once each.
C8_Witness ==
    /\ nFast = 1
    /\ nRender = 1
    /\ fpc = "exc"
    /\ rpc = "goto"

Success(status) == 200 <= status /\ status < 300

\* A response has been received and classified.
Classified == fpc \in {"parse", "ret", "exc"} /\ r.status # 0

C10_RenderOnly ==
    ~prefer_requests =>
        /\ nFast = 0
        /\ nGet = 0
        /\ fpc = "idle"
        /\ pc = "DONE" =>
              /\ nRender = 1
              /\ rpc = "ret"
              /\ result = rret[1]
              /\ result = extract_mos_from_text(text)

\* C10 witness: a render-only call that ended with a value.
C10_Witness ==
    /\ ~prefer_requests
    /\ pc = "DONE"
    /\ result # None
    /\ nFast = 0
    /\ nRender = 1

====
